------------------------------ MODULE Spec2Model ------------------------------
(***************************************************************************)
(* A model of nengo/utils/function_space.py: the samplers Function,        *)
(* Combined and FunctionSpaceDistribution, and the lazily cached basis of  *)
(* FunctionSpace (compute_basis, project, reconstruct).                    *)
(*                                                                         *)
(* Numbers.  A float is modelled by an exact extended rational <<n, d>>    *)
(* with d >= 0 in lowest terms: <<n, d>> with d > 0 is n/d, <<1, 0>> and   *)
(* <<-1, 0>> are +Inf and -Inf, <<0, 0>> is NaN, so a division by zero     *)
(* gives what numpy gives (x/0 = +-Inf, 0/0 = NaN, Inf*0 = NaN).           *)
(* Python's None is the empty tuple.  A singular value is represented by   *)
(* its square (it is non-negative, so the square determines it).           *)
(***************************************************************************)
EXTENDS Integers, Sequences, FiniteSets, TLC

(***************************************************************************)
(* Bounds of the model.                                                    *)
(***************************************************************************)
\* largest number of rows asked of a sampler (n, n_samples)
MaxN == 2
\* largest superimpose of a Function
MaxSuper == 2
\* number of states of the pseudo random generator
RngMod == 8

None == <<>>

(***************************************************************************)
(* Extended rational arithmetic (numpy float arithmetic, exact).           *)
(***************************************************************************)
Abs(x) == IF x < 0 THEN -x ELSE x

Sgn(x) == IF x < 0 THEN -1 ELSE IF x = 0 THEN 0 ELSE 1

RECURSIVE GCD(_, _)
GCD(a, b) == IF b = 0 THEN a ELSE GCD(b, a % b)

Rat(n, d) ==
    IF d = 0 THEN <<Sgn(n), 0>>
    ELSE LET g == GCD(Abs(n), Abs(d))
             s == Sgn(d)
         IN  <<(s * n) \div g, (s * d) \div g>>

R(a) == <<a, 1>>

NaN == <<0, 0>>

IsFinite(x) == x[2] # 0

RMul(x, y) == Rat(x[1] * y[1], x[2] * y[2])

RAdd(x, y) ==
    IF x[2] = 0 /\ y[2] = 0
    THEN (IF x = y THEN x ELSE NaN)
    ELSE Rat(x[1] * y[2] + y[1] * x[2], x[2] * y[2])

RDiv(x, y) == Rat(x[1] * y[2], x[2] * y[1])

\* x <= y for finite x and y
RLeq(x, y) == x[1] * y[2] <= y[1] * x[2]

IsSquare(k) == k >= 0 /\ \E r \in 0..k : r * r = k

ISqrt(k) == CHOOSE r \in 0..k : r * r = k

\* the square root of a rational that is a square, of +Inf and of NaN
RSqrt(x) == IF x[2] = 0 THEN x ELSE <<ISqrt(x[1]), ISqrt(x[2])>>

HasRSqrt(x) == x[2] = 0 \/ (IsSquare(x[1]) /\ IsSquare(x[2]))

RECURSIVE RSum(_)
RSum(s) == IF s = <<>> THEN R(0) ELSE RAdd(Head(s), RSum(Tail(s)))

(***************************************************************************)
(* Matrices: a matrix is a sequence of rows, a row a sequence of numbers.  *)
(***************************************************************************)
\* a sequence given by a rule, as the tuple of its values
Tuple(f) == SubSeq(f, 1, Len(f))

Matrix(f) == Tuple([i \in 1..Len(f) |-> Tuple(f[i])])

RMat(A) == Matrix([i \in 1..Len(A) |-> [j \in 1..Len(A[i]) |-> R(A[i][j])]])

Transpose(A) == Matrix([j \in 1..Len(A[1]) |-> [i \in 1..Len(A) |-> A[i][j]]])

\* np.dot(A, B) of an n x m and an m x k matrix
Dot(A, B) ==
    Matrix([i \in 1..Len(A) |->
               [j \in 1..Len(B[1]) |->
                   RSum([k \in 1..Len(B) |-> RMul(A[i][k], B[k][j])])]])

\* A * c and A / c, elementwise
Scale(A, c) == Matrix([i \in 1..Len(A) |-> [j \in 1..Len(A[i]) |-> RMul(A[i][j], c)]])

DivBy(A, c) == Matrix([i \in 1..Len(A) |-> [j \in 1..Len(A[i]) |-> RDiv(A[i][j], c)]])

\* the squared Euclidean norm of a row
NormSq(row) == RSum([k \in 1..Len(row) |-> RMul(row[k], row[k])])

\* A[:k], the first k rows (all of them when k exceeds their number)
Top(A, k) == SubSeq(A, 1, IF k < Len(A) THEN k ELSE Len(A))

AllFinite(A) == \A i \in 1..Len(A) : \A j \in 1..Len(A[i]) : IsFinite(A[i][j])


(***************************************************************************)
(* np.linalg.svd.  numpy returns one decomposition data = U * diag(S) * V  *)
(* with V orthogonal and S descending; which one (the signs of the rows of *)
(* V, the order among equal singular values, the basis of a null space) is *)
(* LAPACK's choice.  SVD(data) is the set of the decompositions whose V    *)
(* has its entries among Coords: data * V^T = U * diag(S) has pairwise     *)
(* orthogonal columns whose norms, the singular values, descend.           *)
(***************************************************************************)
Coords == {R(0), R(1), R(-1), <<3, 5>>, <<-3, 5>>, <<4, 5>>, <<-4, 5>>}

UnitVecs == {u \in Coords \X Coords : NormSq(u) = R(1)}

CandV == {v \in UnitVecs \X UnitVecs :
              RAdd(RMul(v[1][1], v[2][1]), RMul(v[1][2], v[2][2])) = R(0)}

IsSVD(data, v) ==
    LET M == Dot(data, Transpose(v))
        G == Dot(Transpose(M), M)
    IN  /\ \A i, j \in 1..Len(G) : i # j => G[i][j] = R(0)
        /\ \A i \in 1..(Len(G) - 1) : RLeq(G[i + 1][i + 1], G[i][i])

SingularSq(data, v) ==
    LET M == Dot(data, Transpose(v))
        k == IF Len(data) < Len(v) THEN Len(data) ELSE Len(v)
    IN  Tuple([i \in 1..k |-> NormSq(Transpose(M)[i])])

SVD(data) == {[S |-> SingularSq(data, v), V |-> v] : v \in {w \in CandV : IsSVD(data, w)}}

(***************************************************************************)
(* The pure part of FunctionSpace.compute_basis, lines 121-128.            *)
(***************************************************************************)
\* proj = np.dot(data, V[:n_basis].T)
Proj(data, V, nb) == Dot(data, Transpose(Top(V, nb)))

\* np.mean(np.linalg.norm(proj, axis=1)) ** 2
ScaleOf(proj) ==
    LET norms == [i \in 1..Len(proj) |-> RSqrt(NormSq(proj[i]))]
        mean  == RDiv(RSum(norms), R(Len(proj)))
    IN  RMul(mean, mean)

\* V[:n_basis].T / np.sqrt(scale)
BasisOf(V, nb, scale) == DivBy(Transpose(Top(V, nb)), RSqrt(scale))

\* the data matrices the arithmetic above is exact on
Exact(data, nb) ==
    /\ SVD(data) # {}
    /\ \A sv \in SVD(data) :
          \A i \in 1..Len(data) : HasRSqrt(NormSq(Proj(data, sv.V, nb)[i]))

(***************************************************************************)
(* The random generator: a state, advanced by one per number drawn.        *)
(***************************************************************************)
RngNext(s) == (5 * s + 3) % RngMod

RECURSIVE RngAt(_, _)
RngAt(s, k) == IF k = 0 THEN s ELSE RngAt(RngNext(s), k - 1)

(***************************************************************************)
(* A base distribution of nengo.dists (uniform on the integers low..high): *)
(* sample(n, d, rng) draws n*d numbers from rng, row by row; without d it  *)
(* returns the n numbers as a vector.                                      *)
(***************************************************************************)
BaseDists == {[kind |-> "Base", low |-> -1, high |-> 1],
              [kind |-> "Base", low |-> 0, high |-> 2]}

BaseDraw(b, s) == b.low + (s % (b.high - b.low + 1))

BaseSample1D(b, n, rng) ==
    [val |-> [k \in 1..n |-> BaseDraw(b, RngAt(rng, k - 1))],
     rng |-> RngAt(rng, n)]

BaseSample(b, n, d, rng) ==
    [val |-> [i \in 1..n |-> [j \in 1..d |->
                 BaseDraw(b, RngAt(rng, (i - 1) * d + (j - 1)))]],
     rng |-> RngAt(rng, n * d)]

(***************************************************************************)
(* Function, lines 7-33.  A Function is                                    *)
(*   [kind, function, superimpose, distributions]                          *)
(* where distributions is the keyword dictionary in its iteration order, a *)
(* sequence of [name, isDist, dist, const]: isDist is the test             *)
(* isinstance(v, Distribution), dist the distribution, const the fixed     *)
(* scalar.                                                                 *)
(***************************************************************************)
\* the user functions, each from its keyword arguments to a vector
UserFunction(f, args) ==
    CASE f = "axis" -> <<args.a + 2 * args.b, 0>>
      [] f = "diag" -> <<3 * (args.a - args.b), 4 * (args.a - args.b)>>
      [] f = "pair" -> <<args.a, args.b>>

\* n_samples = n * self.superimpose
NSamples(n, superimpose) == n * superimpose

\* the loop of lines 19-23, threading rng through the parameters in order
RECURSIVE SampleParams(_, _, _)
SampleParams(params, ns, rng) ==
    IF params = <<>> THEN [kwargs |-> <<>>, rng |-> rng]
    ELSE LET p    == Head(params)
             one  == IF p.isDist
                     THEN BaseSample1D(p.dist, ns, rng)
                     ELSE [val |-> [k \in 1..ns |-> p.const], rng |-> rng]
             rest == SampleParams(Tail(params), ns, one.rng)
         IN  [kwargs |-> <<one.val>> \o rest.kwargs, rng |-> rest.rng]

\* args = {k: v[index] for k, v in kwargs.items()}, index counted from 0
ArgsAt(params, kwargs, index) ==
    [nm \in {params[i].name : i \in 1..Len(params)} |->
        kwargs[CHOOSE i \in 1..Len(params) : params[i].name = nm][index + 1]]

VecSumLast(total) == total[Len(total)]

\* np.sum(total, axis=0)
RECURSIVE VecSum(_)
VecSum(total) ==
    IF Len(total) = 1 THEN Head(total)
    ELSE LET r == VecSum(Tail(total))
         IN  [c \in 1..Len(Head(total)) |-> Head(total)[c] + r[c]]

\* for j in range(self.superimpose), lines 28-31
RECURSIVE InnerLoop(_, _, _, _, _, _)
InnerLoop(F, kwargs, j, index, total, calls) ==
    IF j = F.superimpose THEN [total |-> total, index |-> index, calls |-> calls]
    ELSE LET args == ArgsAt(F.distributions, kwargs, index)
         IN  InnerLoop(F, kwargs, j + 1, index + 1,
                       Append(total, UserFunction(F.function, args)),
                       Append(calls, args))

\* for i in range(n), lines 26-32
RECURSIVE OuterLoop(_, _, _, _, _, _, _)
OuterLoop(F, kwargs, n, i, index, values, calls) ==
    IF i = n THEN [values |-> values, calls |-> calls]
    ELSE LET in == InnerLoop(F, kwargs, 0, index, <<>>, calls)
         IN  OuterLoop(F, kwargs, n, i + 1, in.index,
                       Append(values, VecSum(in.total)), in.calls)

\* Function.sample(n, rng=rng): val is the matrix returned, rng the state of
\* the generator afterwards, calls the arguments of the calls of the user
\* function in order, kwargs the values drawn for each parameter
FunctionSample(F, n, rng) ==
    LET kw  == SampleParams(F.distributions, NSamples(n, F.superimpose), rng)
        out == OuterLoop(F, kw.kwargs, n, 0, 0, <<>>, <<>>)
    IN  [val |-> out.values, rng |-> kw.rng, calls |-> out.calls,
         kwargs |-> kw.kwargs, err |-> "none"]

Consts == {1, 2}

\* the dist field of a parameter that is a fixed scalar
NoDist == [kind |-> "Base", low |-> 0, high |-> 0]

ParamsOf(nm) ==
    {[name |-> nm, isDist |-> TRUE, dist |-> b, const |-> 0] : b \in BaseDists}
    \cup {[name |-> nm, isDist |-> FALSE, dist |-> NoDist, const |-> c] : c \in Consts}

\* Function(function, superimpose, a=..., b=...), lines 8-12
FunctionDists ==
    {[kind |-> "Function", function |-> f, superimpose |-> s, distributions |-> ps] :
        f \in {"axis", "diag", "pair"}, s \in 1..MaxSuper,
        ps \in (ParamsOf("a") \X ParamsOf("b")) \cup (ParamsOf("b") \X ParamsOf("a"))}

(***************************************************************************)
(* Combined, lines 56-76.  A weight w / sqrt(r), and a sample times a      *)
(* weight, is the pair <<w, r>>: norms of weight vectors are not rational. *)
(***************************************************************************)
\* sample(n, rng=rng) called without d: d is None
NoD == -1

RECURSIVE SumSeq(_)
SumSeq(s) == IF s = <<>> THEN 0 ELSE Head(s) + SumSeq(Tail(s))

SumSq(w) == SumSeq([i \in 1..Len(w) |-> w[i] * w[i]])

CombinedWeightsAlways(weights, k, normalize_weights) ==
    LET w == IF weights = None THEN [i \in 1..k |-> 1] ELSE weights
    IN  [i \in 1..Len(w) |-> <<w[i], SumSq(w)>>]

\* lines 59-62: weights = np.ones(len(distributions)) when None, and
\* weights / np.linalg.norm(weights) when normalize_weights
CombinedWeights(weights, k, normalize_weights) ==
    LET w == IF weights = None THEN [i \in 1..k |-> 1] ELSE weights
    IN  IF normalize_weights
        THEN [i \in 1..Len(w) |-> <<w[i], SumSq(w)>>]
        ELSE [i \in 1..Len(w) |-> <<w[i], 1>>]

\* Combined(distributions, dimensions, weights, normalize_weights)
CombinedInit(distributions, dimensions, weights, normalize_weights) ==
    [kind          |-> "Combined",
     weights       |-> CombinedWeights(weights, Len(distributions), normalize_weights),
     distributions |-> distributions,
     dimensions    |-> dimensions,
     n_dimensions  |-> SumSeq(dimensions)]

\* dist.sample(...) * self.weights[i]
Times(A, w) == [i \in 1..Len(A) |-> [j \in 1..Len(A[i]) |-> <<A[i][j] * w[1], w[2]>>]]

\* the comprehension of lines 73-74, in the order of enumerate
RECURSIVE CombinedLoop(_, _, _, _, _, _)
CombinedLoop(C, n, i, rng, data, calls) ==
    IF i > Len(C.distributions) THEN [data |-> data, rng |-> rng, calls |-> calls]
    ELSE LET s == BaseSample(C.distributions[i], n, C.dimensions[i], rng)
         IN  CombinedLoop(C, n, i + 1, s.rng,
                          Append(data, Times(s.val, C.weights[i])),
                          Append(calls, [dist |-> C.distributions[i], n |-> n,
                                         d |-> C.dimensions[i], rng |-> rng]))

RECURSIVE Concat(_)
Concat(ss) == IF ss = <<>> THEN <<>> ELSE Head(ss) \o Concat(Tail(ss))

\* np.hstack(data) of matrices of n rows
HStack(data, n) == [r \in 1..n |-> Concat([i \in 1..Len(data) |-> data[i][r]])]

CombinedSampleUnchecked(C, n, d, rng) ==
    LET l == CombinedLoop(C, n, 1, rng, <<>>, <<>>)
    IN  [val |-> HStack(l.data, n), rng |-> l.rng, calls |-> l.calls, err |-> "none"]

\* Combined.sample(n, d, rng)
CombinedSample(C, n, d, rng) ==
    IF d # C.n_dimensions
    THEN [val |-> None, rng |-> rng, calls |-> <<>>, err |-> "AssertionError"]
    ELSE LET l == CombinedLoop(C, n, 1, rng, <<>>, <<>>)
         IN  [val |-> HStack(l.data, n), rng |-> l.rng, calls |-> l.calls,
              err |-> "none"]

\* largest dimensionality of a sub-distribution of a Combined
MaxDim == 2

WeightVals == {0, 1, 2}

SeqsOf(S, k) == [1..k -> S]

\* the arguments of the constructor: lists of one or two sub-distributions
\* with as many dimensions and, when given, as many weights
CombinedArgs ==
    {c \in (SeqsOf(BaseDists, 1) \cup SeqsOf(BaseDists, 2))
           \X (SeqsOf(1..MaxDim, 1) \cup SeqsOf(1..MaxDim, 2))
           \X ({None} \cup SeqsOf(WeightVals, 1) \cup SeqsOf(WeightVals, 2))
           \X BOOLEAN :
        /\ Len(c[2]) = Len(c[1])
        /\ c[3] # None => Len(c[3]) = Len(c[1])}

(***************************************************************************)
(* The state.  ctor, dist, srng and out are a sampler under test: the      *)
(* arguments it was constructed with, the object, the caller's generator   *)
(* and the last call of sample (a sequence of at most one record).  The    *)
(* others are one FunctionSpace and its use.                               *)
(***************************************************************************)
VARIABLES ctor, dist, srng, out,
          space, n_basis, n_samples, rng, _basis, _scale, _S,
          fsd, V, nCompute, op, arg, src, ret, raised,
          th, wr, torn, mixed, nOps

samplerVars == <<ctor, dist, srng, out>>

fsVars == <<space, n_basis, n_samples, rng, _basis, _scale, _S>>

\* fsd: the FunctionSpaceDistribution made last (at most one record); V: the V
\* of the last SVD; nCompute: the runs of compute_basis so far; op, arg, src,
\* ret, raised: the last operation, its argument, the point whose projection
\* the argument is, what it returned (at most one value) and what it raised
useVars == <<fsd, V, nCompute, op, arg, src, ret, raised>>

\* th: the threads using the FunctionSpace, each its position and locals; wr:
\* the thread whose compute_basis wrote _scale and _basis (0: nobody yet);
\* torn: a thread has read scale while _basis was unset; mixed: a scale and
\* a basis written by different runs of compute_basis have been combined;
\* nOps: the operations started so far
thrVars == <<th, wr, torn, mixed, nOps>>

vars == <<ctor, dist, srng, out, space, n_basis, n_samples, rng, _basis, _scale, _S,
          fsd, V, nCompute, op, arg, src, ret, raised, th, wr, torn, mixed, nOps>>

Rngs == 0..(RngMod - 1)

NoSampler == ctor = None /\ dist = None /\ srng = 0 /\ out = <<>>

NoThreads ==
    /\ th = <<>> /\ wr = [scale |-> 0, basis |-> 0] /\ torn = FALSE
    /\ mixed = FALSE /\ nOps = 0

NoFunctionSpace ==
    /\ space = None /\ n_basis = 0 /\ n_samples = 0 /\ rng = 0
    /\ _basis = None /\ _scale = None /\ _S = None
    /\ fsd = <<>> /\ V = None /\ nCompute = 0 /\ op = "init" /\ arg = <<>>
    /\ src = <<>> /\ ret = <<>> /\ raised = "none"
    /\ NoThreads

(***************************************************************************)
(* Function.sample: a Function, and calls of sample(n, rng=srng).          *)
(***************************************************************************)
InitFunction ==
    /\ ctor = None
    /\ dist \in FunctionDists
    /\ srng \in Rngs
    /\ out = <<>>
    /\ NoFunctionSpace

SampleFunction ==
    \E n \in 1..MaxN :
        LET r == FunctionSample(dist, n, srng)
        IN  /\ out' = <<[n |-> n, d |-> NoD, rng0 |-> srng, res |-> r]>>
            /\ srng' = r.rng
            /\ UNCHANGED <<ctor, dist>>
            /\ UNCHANGED fsVars
            /\ UNCHANGED useVars
            /\ UNCHANGED thrVars

NextFunction == SampleFunction

SpecFunction == InitFunction /\ [][NextFunction]_vars

(***************************************************************************)
(* Combined.sample: a Combined, and calls of sample(n, d, rng=srng).       *)
(***************************************************************************)
InitCombined ==
    /\ ctor \in CombinedArgs
    /\ dist = CombinedInit(ctor[1], ctor[2], ctor[3], ctor[4])
    /\ srng \in Rngs
    /\ out = <<>>
    /\ NoFunctionSpace

SampleCombined ==
    \E n \in 1..MaxN, d \in {NoD} \cup 0..(2 * MaxDim) :
        LET r == CombinedSample(dist, n, d, srng)
        IN  /\ out' = <<[n |-> n, d |-> d, rng0 |-> srng, res |-> r]>>
            /\ srng' = r.rng
            /\ UNCHANGED <<ctor, dist>>
            /\ UNCHANGED fsVars
            /\ UNCHANGED useVars
            /\ UNCHANGED thrVars

NextCombined == SampleCombined

SpecCombined == InitCombined /\ [][NextCombined]_vars

(***************************************************************************)
(* Claims about Combined.sample, checked under SpecCombined.               *)
(***************************************************************************)
\* C3: Combined.sample(n, d, rng) fails with an AssertionError whenever d
\* differs from sum(dimensions), before any sub-distribution is sampled: no
\* sub-distribution is called, rng is where it was and the Combined object is
\* as constructed; with d = sum(dimensions) the precondition does not fail.
C3_AssertsDimension ==
    out # <<>> =>
        LET o == out[1]
        IN  /\ dist.distributions = ctor[1]
            /\ dist.dimensions = ctor[2]
            /\ IF o.d # SumSeq(ctor[2])
               THEN /\ o.res.err = "AssertionError"
                    /\ o.res.calls = <<>>
                    /\ srng = o.rng0
               ELSE o.res.err = "none"

\* a call with an integer d that is not sum(dimensions) has failed
C3_Witness ==
    /\ out # <<>>
    /\ out[1].d # NoD
    /\ out[1].d # SumSeq(ctor[2])
    /\ out[1].res.err = "AssertionError"

\* the weights the constructor is documented to store
C4_Weight(i) ==
    LET w == IF ctor[3] = None THEN [k \in 1..Len(ctor[1]) |-> 1] ELSE ctor[3]
    IN  <<w[i], IF ctor[4] THEN SumSq(w) ELSE 1>>

\* the column before the block of sub-distribution i
C4_Offset(i) == SumSeq(SubSeq(ctor[2], 1, i - 1))

\* C4: with d = sum(dimensions), every sub-distribution i is sampled exactly
\* once, in list order, with the same n, d = dimensions[i] and the same
\* generator (each call starts where the one before stopped); the result has
\* n rows of sum(dimensions) columns and its i-th column block is the sample of
\* sub-distribution i times weights[i], the weights being all 1 by default
\* and divided by their Euclidean norm unless normalize_weights is False.
C4_WeightedBlocks ==
    (out # <<>> /\ out[1].d = SumSeq(ctor[2])) =>
        LET o     == out[1]
            k     == Len(ctor[1])
            calls == o.res.calls
        IN  /\ Len(calls) = k
            /\ \A i \in 1..k :
                  /\ calls[i].dist = ctor[1][i]
                  /\ calls[i].n = o.n
                  /\ calls[i].d = ctor[2][i]
                  /\ calls[i].rng = RngAt(o.rng0, o.n * C4_Offset(i))
            /\ srng = RngAt(o.rng0, o.n * SumSeq(ctor[2]))
            /\ Len(o.res.val) = o.n
            /\ \A r \in 1..o.n :
                  /\ Len(o.res.val[r]) = SumSeq(ctor[2])
                  /\ \A i \in 1..k : \A j \in 1..ctor[2][i] :
                        LET x == BaseSample(ctor[1][i], o.n, ctor[2][i],
                                            calls[i].rng).val[r][j]
                            w == C4_Weight(i)
                        IN  o.res.val[r][C4_Offset(i) + j] = <<x * w[1], w[2]>>

\* two sub-distributions of different dimensions, default weights normalized,
\* sampled for two rows
C4_Witness ==
    /\ out # <<>>
    /\ out[1].res.err = "none"
    /\ out[1].n = 2
    /\ Len(ctor[1]) = 2
    /\ ctor[1][1] # ctor[1][2]
    /\ ctor[2] = <<1, 2>>
    /\ ctor[3] = None
    /\ ctor[4]
    /\ out[1].res.val[1][3] = <<2, 2>>

(***************************************************************************)
(* Claims about Function.sample, checked under SpecFunction.               *)
(***************************************************************************)
\* the number of distribution-valued parameters before the i-th
C5_DistsBefore(i) ==
    Cardinality({j \in 1..(i - 1) : dist.distributions[j].isDist})

SpaceSample(fs) ==
    CASE fs.space.kind = "matrix" ->
            [err |-> "none", data |-> RMat(fs.space.obj), rng |-> fs.rng]
      [] fs.space.kind = "Function" ->
            LET r == FunctionSample(fs.space.obj, fs.n_samples, fs.rng)
            IN  [err |-> "none", data |-> RMat(r.val), rng |-> r.rng]
      [] fs.space.kind = "Combined" ->
            LET r == CombinedSample(fs.space.obj, fs.n_samples, NoD, fs.rng)
            IN  [err |-> r.err, data |-> r.val, rng |-> r.rng]

\* a compute_basis that leaves _S unset (line 128 dropped)
StoreNoS(fs, sv, data) ==
    LET fs1 == [fs  EXCEPT !.scale = ScaleOf(Proj(data, sv.V, fs.n_basis))]
    IN  [fs1 EXCEPT !.basis = BasisOf(sv.V, fs.n_basis, fs1.scale)]

\* lines 119-128 for one decomposition sv of data: _scale is assigned, then
\* _basis from the property scale, then _S
Store(fs, sv, data) ==
    LET fs1 == [fs  EXCEPT !.scale = ScaleOf(Proj(data, sv.V, fs.n_basis))]
        fs2 == [fs1 EXCEPT !.basis = BasisOf(sv.V, fs.n_basis, fs1.scale)]
    IN  [fs2 EXCEPT !.S = sv.S]

\* FunctionSpace.compute_basis
ComputeBasis(fs) ==
    LET d == SpaceSample(fs)
    IN  IF d.err # "none"
        THEN {[fs |-> [fs EXCEPT !.rng = d.rng], err |-> d.err, runs |-> 1,
               V |-> None, val |-> None]}
        ELSE {[fs |-> Store([fs EXCEPT !.rng = d.rng], sv, d.data), err |-> "none",
               runs |-> 1, V |-> sv.V, val |-> None] : sv \in SVD(d.data)}

\* the properties basis, scale and S, lines 95-111: field is the cached field
Property(fs, field) ==
    IF fs[field] = None
    THEN {[o EXCEPT !.val = o.fs[field]] : o \in ComputeBasis(fs)}
    ELSE {[fs |-> fs, err |-> "none", runs |-> 0, V |-> None, val |-> fs[field]]}

\* a project that reads the basis for a Distribution too
ProjectDistributionEager(fs) == Property(fs, "basis")

\* project(pts) for a Distribution pts: the object is not touched
ProjectDistribution(fs) ==
    {[fs |-> fs, err |-> "none", runs |-> 0, V |-> None, val |-> None]}

\* np.dot(pts, self.basis), lines 54 and 134
ProjectMatrix(fs, pts) ==
    {IF o.err = "none" THEN [o EXCEPT !.val = Dot(pts, o.val)] ELSE o :
        o \in Property(fs, "basis")}

ReconstructValueUnscaled(x, basis, scale) == Dot(x, Transpose(basis))

\* np.dot(x, basis.T) * scale
ReconstructValue(x, basis, scale) == Scale(Dot(x, Transpose(basis)), scale)

\* reconstruct(x), line 140: the property basis, then the property scale
Reconstruct(fs, x) ==
    UNION {IF b.err # "none" THEN {b}
           ELSE {IF sc.err # "none" THEN [sc EXCEPT !.runs = b.runs + sc.runs]
                 ELSE [sc EXCEPT !.runs = b.runs + sc.runs,
                                 !.V = IF sc.runs > 0 THEN sc.V ELSE b.V,
                                 !.val = ReconstructValue(x, b.val, sc.val)] :
                    sc \in Property(b.fs, "scale")} :
           b \in Property(fs, "basis")}

(***************************************************************************)
(* The use of one FunctionSpace by one thread: Spec.                       *)
(***************************************************************************)
\* largest number of runs of compute_basis followed
MaxCompute == 2

\* the directions of the rows of a data matrix and of the points projected
Dirs == {<<1, 0>>, <<0, 1>>, <<3, 4>>, <<-4, 3>>}

\* the amplitudes of those rows
Amps == {0, 1}

Rows == {<<a * d[1], a * d[2]>> : a \in Amps, d \in Dirs}

\* raw data matrices of one or two rows
DataSet == SeqsOf(Rows, 1) \cup SeqsOf(Rows, 2)

\* the Function distributions used as space and projected: their samples lie
\* on one line
SpaceFunctions ==
    {[kind |-> "Function", function |-> f, superimpose |-> s,
      distributions |-> <<[name |-> "a", isDist |-> TRUE, const |-> 0,
                           dist |-> [kind |-> "Base", low |-> -1, high |-> 1]],
                          [name |-> "b", isDist |-> FALSE, const |-> 1,
                           dist |-> NoDist]>>] :
        f \in {"axis", "diag"}, s \in {1, 2}}

SpaceCombineds ==
    {CombinedInit(<<b, b>>, <<1, 1>>, None, TRUE) : b \in BaseDists}

\* the seeds of the generators
Seeds == {0, 1}

\* FunctionSpace(space, n_basis, n_samples, seed), lines 83-92
Init ==
    /\ NoSampler
    /\ \/ /\ space \in {[kind |-> "matrix", obj |-> m] : m \in DataSet}
          /\ n_samples = 1
          /\ rng = 0
          /\ n_basis \in {nb \in 1..2 : Exact(RMat(space.obj), nb)}
       \/ /\ space \in {[kind |-> "Function", obj |-> f] : f \in SpaceFunctions}
          /\ n_samples \in 1..MaxN
          /\ rng \in Seeds
          /\ n_basis \in 1..2
       \/ /\ space \in {[kind |-> "Combined", obj |-> c] : c \in SpaceCombineds}
          /\ n_samples \in 1..MaxN
          /\ rng \in Seeds
          /\ n_basis \in 1..2
    /\ _basis = None /\ _scale = None /\ _S = None
    /\ fsd = <<>> /\ V = None /\ nCompute = 0 /\ op = "init" /\ arg = <<>>
    /\ src = <<>> /\ ret = <<>> /\ raised = "none"
    /\ NoThreads

Self ==
    [space |-> space, n_basis |-> n_basis, n_samples |-> n_samples, rng |-> rng,
     basis |-> _basis, scale |-> _scale, S |-> _S]

\* the state after an operation with outcome o
Done(o, name, a, s) ==
    /\ nCompute + o.runs <= MaxCompute
    /\ rng' = o.fs.rng
    /\ _basis' = o.fs.basis
    /\ _scale' = o.fs.scale
    /\ _S' = o.fs.S
    /\ nCompute' = nCompute + o.runs
    /\ V' = IF o.runs > 0 /\ o.err = "none" THEN o.V ELSE V
    /\ op' = name
    /\ arg' = a
    /\ src' = s
    /\ ret' = IF o.err = "none" THEN <<o.val>> ELSE <<>>
    /\ raised' = o.err
    /\ UNCHANGED <<space, n_basis, n_samples>>
    /\ UNCHANGED samplerVars
    /\ UNCHANGED thrVars

ReadBasis == \E o \in Property(Self, "basis") : Done(o, "basis", <<>>, <<>>) /\ fsd' = fsd

ReadScale == \E o \in Property(Self, "scale") : Done(o, "scale", <<>>, <<>>) /\ fsd' = fsd

ReadS == \E o \in Property(Self, "S") : Done(o, "S", <<>>, <<>>) /\ fsd' = fsd

\* the points projected: one row
Points == SeqsOf(Rows, 1)

\* project(pts) with pts a matrix
ProjectPoints ==
    \E pts \in Points : \E o \in ProjectMatrix(Self, RMat(pts)) :
        Done(o, "project", <<RMat(pts)>>, <<>>) /\ fsd' = fsd

\* the distributions projected
ProjectedFunctions == {f \in SpaceFunctions : f.function = "diag" /\ f.superimpose = 2}

\* project(pts) with pts a Distribution, lines 131-132 and 44-47
ProjectDist ==
    \E f \in ProjectedFunctions : \E o \in ProjectDistribution(Self) :
        /\ Done([o EXCEPT !.val = [kind |-> "Function", obj |-> f]],
                "project_dist", <<>>, <<>>)
        /\ fsd' = <<[kind |-> "Function", obj |-> f]>>

\* the fixed data a FunctionSpaceDistribution is made of
FixedData == {<<<<1, 0>>, <<0, 1>>, <<3, 4>>>>}

\* FunctionSpaceDistribution(fs, data) with data a matrix, lines 44-47
MakeFSD ==
    \E m \in FixedData : \E o \in ProjectDistribution(Self) :
        /\ Done([o EXCEPT !.val = [kind |-> "matrix", obj |-> m]], "make_fsd", <<>>, <<>>)
        /\ fsd' = <<[kind |-> "matrix", obj |-> m]>>

\* the coefficient rows reconstructed
Coeffs == IF n_basis = 1 THEN SeqsOf(SeqsOf(0..1, 1), 1) ELSE SeqsOf(SeqsOf(0..1, 2), 1)

\* reconstruct(x), with x some coefficients or what project(p) just returned
ReconstructPoints ==
    \/ \E x \in Coeffs : \E o \in Reconstruct(Self, RMat(x)) :
          Done(o, "reconstruct", <<RMat(x)>>, <<>>) /\ fsd' = fsd
    \/ /\ op = "project"
       /\ raised = "none"
       /\ \E o \in Reconstruct(Self, ret[1]) :
             Done(o, "reconstruct", ret, arg) /\ fsd' = fsd

\* FunctionSpaceDistribution.sample(n, rng=RandomState(seed)), lines 49-54
SampleFSD ==
    /\ fsd # <<>>
    /\ \E n \in 1..MaxN, seed \in Seeds :
          LET data == IF fsd[1].kind = "Function"
                      THEN RMat(FunctionSample(fsd[1].obj, n, seed).val)
                      ELSE RMat(fsd[1].obj)
          IN  \E o \in ProjectMatrix(Self, data) :
                  Done(o, "fsd_sample", <<n>>, <<>>) /\ fsd' = fsd

Next ==
    \/ ReadBasis
    \/ ReadScale
    \/ ReadS
    \/ ProjectPoints
    \/ ReconstructPoints

Spec == Init /\ [][Next]_vars

(***************************************************************************)
(* The use of one FunctionSpace and of the FunctionSpaceDistributions made *)
(* of it: SpecFSD.                                                         *)
(***************************************************************************)
InitFSD == Init /\ (space.kind = "matrix" => Len(space.obj) = 1)

NextFSD ==
    \/ ReadBasis
    \/ ProjectPoints
    \/ ProjectDist
    \/ MakeFSD
    \/ SampleFSD

SpecFSD == InitFSD /\ [][NextFSD]_vars

(***************************************************************************)
(* The use of one fresh FunctionSpace by two threads: SpecThreads.  A      *)
(* thread runs one operation at a time, a statement at a step: the test of *)
(* a property ("test"), then compute_basis when the field is None (lines   *)
(* 114-119 "sample", 121-122 "scale", 127 "basis", 128 "S"), then the      *)
(* return of the field ("load").  reconstruct reads the property basis and *)
(* then the property scale.                                                *)
(***************************************************************************)
Threads == {1, 2}

\* largest number of operations the threads start
MaxOps == 2

Operations == {"basis", "scale", "S", "project", "reconstruct"}

\* the matrix projected and the coefficients reconstructed by a thread
ThreadPoint == RMat(<<<<3, 4>>>>)

ThreadCoeffs == RMat(<<<<1>>>>)

Idle == [pc |-> "idle", op |-> "none", field |-> "none", data |-> None,
         sv |-> [S |-> None, V |-> None], b |-> None, bBy |-> 0]

\* the spaces of the FunctionSpace the threads share: a distribution, whose
\* samples differ from one run of compute_basis to the next, and a matrix
ThreadSpaces ==
    {[kind |-> "Function", obj |-> f] :
        f \in {g \in SpaceFunctions : g.function = "axis" /\ g.superimpose = 1}}
    \cup {[kind |-> "matrix", obj |-> <<<<3, 4>>, <<0, 0>>>>]}

InitThreads ==
    /\ NoSampler
    /\ space \in ThreadSpaces
    /\ n_samples = 2
    /\ rng \in Seeds
    /\ n_basis = 1
    /\ _basis = None /\ _scale = None /\ _S = None
    /\ fsd = <<>> /\ V = None /\ nCompute = 0 /\ op = "init" /\ arg = <<>>
    /\ src = <<>> /\ ret = <<>> /\ raised = "none"
    /\ th = [t \in Threads |-> Idle]
    /\ wr = [scale |-> 0, basis |-> 0]
    /\ torn = FALSE /\ mixed = FALSE /\ nOps = 0

Shared == <<space, n_basis, n_samples, rng, _basis, _scale, _S>>

Quiet == UNCHANGED samplerVars /\ UNCHANGED <<fsd, V, arg, src, raised>>

Silent == Quiet /\ UNCHANGED <<op, ret>>

\* a thread calls an operation
Start(t) ==
    /\ th[t].pc = "idle"
    /\ nOps < MaxOps
    /\ \E o \in Operations :
          th' = [th EXCEPT ![t] = [Idle EXCEPT !.pc = "test", !.op = o,
                     !.field = IF o \in {"scale", "S"} THEN o ELSE "basis"]]
    /\ nOps' = nOps + 1
    /\ UNCHANGED <<wr, torn, mixed, nCompute>>
    /\ UNCHANGED Shared
    /\ Silent

\* the next position of a thread at the test of a property
TestLocked(t) ==
    IF Self[th[t].field] # None THEN "load"
    ELSE IF \E u \in Threads \ {t} : th[u].pc \in {"sample", "scale", "basis", "S"}
         THEN "test"
         ELSE "sample"

\* if self._basis is None: (and the same for _scale and _S), lines 97, 103, 109
Tested(t) == IF Self[th[t].field] = None THEN "sample" ELSE "load"

Test(t) ==
    /\ th[t].pc = "test"
    /\ th' = [th EXCEPT ![t].pc = Tested(t)]
    /\ nCompute' = IF Tested(t) = "sample" THEN nCompute + 1 ELSE nCompute
    /\ UNCHANGED <<wr, torn, mixed, nOps>>
    /\ UNCHANGED Shared
    /\ Silent

\* np.linalg.svd is a function: both threads run the same build, which
\* returns the same decomposition for the same data
BuildSVD(data) == CHOOSE sv \in SVD(data) : TRUE

\* lines 114-119: the data and its SVD, locals of the thread
Sample(t) ==
    /\ th[t].pc = "sample"
    /\ LET d == SpaceSample(Self)
       IN  /\ rng' = d.rng
           /\ th' = [th EXCEPT ![t].pc = "scale", ![t].data = d.data,
                               ![t].sv = BuildSVD(d.data)]
    /\ UNCHANGED <<space, n_basis, n_samples, _basis, _scale, _S>>
    /\ UNCHANGED <<wr, torn, mixed, nOps, nCompute>>
    /\ Silent

\* lines 121-122
WriteScale(t) ==
    /\ th[t].pc = "scale"
    /\ _scale' = ScaleOf(Proj(th[t].data, th[t].sv.V, n_basis))
    /\ wr' = [wr EXCEPT !.scale = t]
    /\ th' = [th EXCEPT ![t].pc = "basis"]
    /\ UNCHANGED <<space, n_basis, n_samples, rng, _basis, _S>>
    /\ UNCHANGED <<torn, mixed, nOps, nCompute>>
    /\ Silent

\* line 127: the property scale is read (it is set), then _basis assigned
WriteBasis(t) ==
    /\ th[t].pc = "basis"
    /\ _basis' = BasisOf(th[t].sv.V, n_basis, _scale)
    /\ wr' = [wr EXCEPT !.basis = t]
    /\ mixed' = (mixed \/ wr.scale # t)
    /\ th' = [th EXCEPT ![t].pc = "S"]
    /\ UNCHANGED <<space, n_basis, n_samples, rng, _scale, _S>>
    /\ UNCHANGED <<torn, nOps, nCompute>>
    /\ Silent

\* line 128, the end of compute_basis
WriteS(t) ==
    /\ th[t].pc = "S"
    /\ _S' = th[t].sv.S
    /\ th' = [th EXCEPT ![t].pc = "load", ![t].data = None,
                        ![t].sv = [S |-> None, V |-> None]]
    /\ UNCHANGED <<space, n_basis, n_samples, rng, _basis, _scale>>
    /\ UNCHANGED <<wr, torn, mixed, nOps, nCompute>>
    /\ Silent

\* return self._basis (lines 99, 105, 111) and what the operation does with it
Load(t) ==
    /\ th[t].pc = "load"
    /\ LET v == Self[th[t].field]
       IN  CASE th[t].op = "reconstruct" /\ th[t].field = "basis" ->
                   /\ th' = [th EXCEPT ![t].pc = "test", ![t].field = "scale",
                                       ![t].b = v, ![t].bBy = wr.basis]
                   /\ UNCHANGED <<torn, mixed, op, ret>>
             [] th[t].op = "reconstruct" /\ th[t].field = "scale" ->
                   /\ th' = [th EXCEPT ![t] = Idle]
                   /\ op' = th[t].op
                   /\ ret' = <<ReconstructValue(ThreadCoeffs, th[t].b, v)>>
                   /\ mixed' = (mixed \/ wr.scale # th[t].bBy)
                   /\ torn' = (torn \/ _basis = None)
             [] th[t].op = "project" ->
                   /\ th' = [th EXCEPT ![t] = Idle]
                   /\ op' = th[t].op
                   /\ ret' = <<Dot(ThreadPoint, v)>>
                   /\ UNCHANGED <<torn, mixed>>
             [] th[t].op = "scale" ->
                   /\ th' = [th EXCEPT ![t] = Idle]
                   /\ op' = th[t].op
                   /\ ret' = <<v>>
                   /\ torn' = (torn \/ _basis = None)
                   /\ UNCHANGED mixed
             [] th[t].op \in {"basis", "S"} ->
                   /\ th' = [th EXCEPT ![t] = Idle]
                   /\ op' = th[t].op
                   /\ ret' = <<v>>
                   /\ UNCHANGED <<torn, mixed>>
    /\ UNCHANGED <<wr, nOps, nCompute>>
    /\ UNCHANGED Shared
    /\ Quiet

NextThreads ==
    \E t \in Threads :
        \/ Start(t)
        \/ Test(t)
        \/ Sample(t)
        \/ WriteScale(t)
        \/ WriteBasis(t)
        \/ WriteS(t)
        \/ Load(t)

SpecThreads == InitThreads /\ [][NextThreads]_vars

(***************************************************************************)
(* Claims about the cache of FunctionSpace, checked under Spec.            *)
(***************************************************************************)
Unset == _basis = None /\ _scale = None /\ _S = None

AllSet == _basis # None /\ _scale # None /\ _S # None

\* C1: over any sequence of reads of basis, scale and S and of calls of
\* project(matrix) and reconstruct, compute_basis runs exactly once, at the
\* first access.
C1_ComputedOnce == op # "init" => nCompute = 1

\* C2: between operations _basis, _scale and _S are all unset or all set: all
\* unset after construction, all set after an access that succeeded, all
\* unset after an access whose compute_basis raised.
C2_AllOrNone ==
    /\ Unset \/ AllSet
    /\ op = "init" => Unset
    /\ (op # "init" /\ raised = "none") => AllSet
    /\ raised # "none" => Unset

\* an access has run compute_basis, which raised, and nothing is set
C2_Witness == raised = "AssertionError" /\ nCompute >= 1 /\ Unset

ZeroData ==
    /\ space.kind = "matrix"
    /\ \A i \in 1..Len(space.obj) : space.obj[i] = <<0, 0>>

\* C8: for an all-zero data matrix the computation yields scale = 0 and then
\* either fails with an error or stores a defined basis: it never stores a
\* basis with NaN or Inf entries.
C8_NoNaNBasis ==
    (ZeroData /\ op # "init") =>
        \/ raised # "none"
        \/ _scale = R(0) /\ AllFinite(_basis)

\* p * V_top^T * V_top, the orthogonal projection of p on the span of V_top
C9_OnSpan(p) == Dot(Dot(p, Transpose(Top(V, n_basis))), Top(V, n_basis))

\* C9: with scale > 0, reconstruct(project(p)) is the orthogonal projection
\* p * V_top^T * V_top of p, whatever the scale, and so p itself for p in the
\* span of the top n_basis right singular vectors.
C9_RoundTrip ==
    (op = "reconstruct" /\ raised = "none" /\ src # <<>>
        /\ IsFinite(_scale) /\ _scale[1] > 0) =>
            /\ ret[1] = C9_OnSpan(src[1])
            /\ C9_OnSpan(src[1]) = src[1] => ret[1] = src[1]

\* a point of a one-dimensional span, not on an axis, has made the round trip
\* under a scale that is not 1
C9_Witness ==
    /\ op = "reconstruct" /\ raised = "none" /\ src # <<>>
    /\ n_basis = 1
    /\ IsFinite(_scale) /\ _scale[1] > 0 /\ _scale # R(1)
    /\ src[1] = <<<<R(3), R(4)>>>>
    /\ C9_OnSpan(src[1]) = src[1]
    /\ ret[1] = src[1]

(***************************************************************************)
(* Claims about FunctionSpaceDistribution, checked under SpecFSD.          *)
(***************************************************************************)
\* C6: FunctionSpaceDistribution.sample(n, d, rng) returns n coefficient
\* vectors of length n_basis, the raw rows times the basis, for data a
\* Distribution and for data a fixed matrix.
C6_ReturnsNRows ==
    (op = "fsd_sample" /\ raised = "none") =>
        /\ Len(ret[1]) = arg[1]
        /\ \A i \in 1..Len(ret[1]) : Len(ret[1][i]) = n_basis

\* C7: project(pts) with pts a Distribution returns a
\* FunctionSpaceDistribution of pts and changes nothing: no generator
\* advances, compute_basis does not run, _basis, _scale and _S stay as they
\* were; project(pts) with pts a matrix reads the basis and returns pts * basis.
C7_ProjectIsLazy ==
    [][/\ op' = "project_dist" =>
             /\ UNCHANGED <<space, n_basis, n_samples, rng, _basis, _scale, _S>>
             /\ nCompute' = nCompute
             /\ ret' = fsd'
             /\ fsd'[1].kind = "Function"
       /\ (op' = "project" /\ raised' = "none") =>
             /\ _basis' # None
             /\ ret'[1] = Dot(arg'[1], _basis')]_vars

\* a Distribution has been projected and nothing is computed yet
C7_Witness == op = "project_dist" /\ fsd # <<>> /\ Unset /\ nCompute = 0

(***************************************************************************)
(* Claims about concurrent first access, checked under SpecThreads.        *)
(***************************************************************************)
InCompute(u) == th[u].pc \in {"sample", "scale", "basis", "S"}

\* C10: nothing serialises first access.  A thread at the test of a field
\* that is still None can enter compute_basis while another thread is inside
\* it, so compute_basis can run more than once; and a thread reading scale
\* while _basis is unset gets the scale, so it can observe a partly written
\* cache.
C10_NoMutualExclusion ==
    \A t \in Threads : \A u \in Threads \ {t} :
        /\ (th[t].pc = "test" /\ Self[th[t].field] = None /\ InCompute(u))
              => ENABLED (Test(t) /\ th'[t].pc = "sample" /\ nCompute' = nCompute + 1)
        /\ (th[t].pc = "test" /\ th[t].field = "scale" /\ th[u].pc = "basis"
                /\ _basis = None)
              => ENABLED (Test(t) /\ th'[t].pc = "load")
        /\ (th[t].pc = "load" /\ th[t].op = "scale" /\ _basis = None)
              => ENABLED (Load(t) /\ torn' /\ ret' = <<_scale>>)

\* compute_basis has run twice, and reconstruct has returned the product of a
\* basis and a scale that two different runs wrote and that do not fit
C10_Witness ==
    /\ nCompute = 2
    /\ mixed
    /\ op = "reconstruct"
    /\ wr.scale # wr.basis
    /\ RMul(NormSq(Transpose(_basis)[1]), _scale) # R(1)

\* a thread has read scale while _basis was still unset
C10_TornWitness == torn /\ _basis = None /\ op = "scale"

\* C11: for a space that is a Distribution, once basis, scale or S has been
\* accessed the data matrix came from exactly one call
\* space.sample(n_samples, rng) on the seeded generator of the instance, the
\* call succeeded with n_samples rows, and basis, scale and S are stored.
C11_SpaceSampleSucceeds ==
    (space.kind # "matrix" /\ nCompute >= 1) =>
        /\ nCompute = 1
        /\ AllSet
        /\ \E s \in Seeds :
              LET d == SpaceSample([Self EXCEPT !.rng = s])
              IN  d.err = "none" /\ d.rng = rng /\ Len(d.data) = n_samples

=============================================================================
